---- MODULE Spec2Model ----
(***************************************************************************)
(* Value <-> WitValue conversion of wasm-rpc.                              *)
(*                                                                         *)
(* Two crates carry the conversion: the richer one (wasm-rpc/src/lib.rs,   *)
(* optional variant and result payloads) and the simpler one (src/lib.rs,  *)
(* payload always present).  Both drive a WitValueBuilder (module          *)
(* `builder`, whose source is not part of the tree: it is modelled from    *)
(* the written contract) and both decode with a recursive build_tree.      *)
(*                                                                         *)
(* Positions are 0-based as in the source; At(ns, i) reads position i.     *)
(*                                                                         *)
(* A third crate, wasm-rpc-stubgen, copies a generated stub's WIT files    *)
(* into another project (add_stub_dependency): it plans the copies,        *)
(* verifies each against the destination and then performs them.           *)
(***************************************************************************)
EXTENDS Integers, Sequences, FiniteSets, TLC

VARIABLES crate, phase, input, nodes, status, stack, ret, calls, wit, result,
          args, step, actions, cursor, proceed, events

\* The state of one add_stub_dependency call (wasm-rpc-stubgen).
stubVars == <<args, step, actions, cursor, proceed, events>>

vars == <<crate, phase, input, nodes, status, stack, ret, calls, wit, result,
          args, step, actions, cursor, proceed, events>>

\* ------------------------------------------------------------------ bounds
\* Largest number of Value nodes of a generated input tree.
MaxNodes == 3
\* Largest length of a node sequence received from a peer.
MaxRawLen == 2
\* Largest number of builder calls a direct client of the builder makes.
MaxCalls == 3
\* Largest number of dependency directories under the stub's WIT root.
MaxDeps == 2

\* ------------------------------------------------------------------ crates
Rich == "wasm-rpc"
Simple == "src"
Crates == {Rich, Simple}
Stubgen == "wasm-rpc-stubgen"

\* ------------------------------------------------------------------ Value
\* A Value is [kind, sub, val]: the enum case, the boxed children in order
\* (an Option<Box<Value>> is a sequence of length 0 or 1) and the payload.
Unit == <<>>
Val(kind, val, sub) == [kind |-> kind, sub |-> sub, val |-> val]

\* f32/f64 payloads: a NaN flag and the bits of a non-NaN number.
Float(nan, bits) == [nan |-> nan, bits |-> bits]
NaN == Float(TRUE, 0)

FloatKinds == {"F32", "F64"}
SeqKinds == {"List", "Tuple", "Record"}
ChildKinds == {"Variant", "Option", "Result"}

\* PartialEq of the payload: IEEE equality for floats, identity otherwise.
PayloadEq(kind, a, b) ==
    IF kind \in FloatKinds
    THEN ~a.nan /\ ~b.nan /\ a.bits = b.bits
    ELSE a = b

\* #[derive(PartialEq)] on Value: same case, equal payloads, equal children.
RECURSIVE ValueEq(_, _)
ValueEq(a, b) ==
    /\ a.kind = b.kind
    /\ PayloadEq(a.kind, a.val, b.val)
    /\ Len(a.sub) = Len(b.sub)
    /\ \A j \in 1..Len(a.sub) : ValueEq(a.sub[j], b.sub[j])

\* The number of Value nodes of v.
RECURSIVE Size(_)
Size(v) ==
    LET RECURSIVE Sum(_)
        Sum(j) == IF j = 0 THEN 0 ELSE Size(v.sub[j]) + Sum(j - 1)
    IN 1 + Sum(Len(v.sub))

\* ------------------------------------------------------------------ WitNode
\* A WitNode is [kind, sub, val]: the case, the child indices it carries (an
\* Option<NodeIndex> is a sequence of length 0 or 1) and the payload.
Node(kind, val, sub) == [kind |-> kind, sub |-> sub, val |-> val]
At(ns, i) == ns[i + 1]

\* The index add_variant is given before the payload is built.
Placeholder == -1

\* ------------------------------------------------------------------ builder
\* WitValueBuilder: the node sequence under construction (nodes) and, per
\* node, where it stands in the reserve-then-finish protocol (status):
\*   "complete"  appended fully formed, never to be finished
\*   "reserved"  appended with its children unknown, to be finished once
\*   "optional"  add_option of the simpler crate: appended as an absent
\*               option, finished once if a payload follows
\*   "finished"  a reserved or optional node whose children are installed

\* A builder call as the encoder issues it: the operation, its payload
\* argument, its index arguments and the position it targets.
AddCall(op, val, items) == [op |-> op, val |-> val, items |-> items, at |-> -1]
FinishCall(op, items, at) == [op |-> op, val |-> Unit, items |-> items, at |-> at]

ScalarOps ==
    {"add_bool", "add_u8", "add_u16", "add_u32", "add_u64", "add_s8", "add_s16",
     "add_s32", "add_s64", "add_f32", "add_f64", "add_char", "add_string"}
SeqOps == {"add_list", "add_tuple", "add_record"}
ChildOps == {"add_variant", "add_option_some", "add_result_ok", "add_result_err"}
UnitOps ==
    {"add_variant_unit", "add_enum_value", "add_flags", "add_option_none",
     "add_result_ok_unit", "add_result_err_unit"}
ReservingOps == SeqOps \cup ChildOps \cup {"add_option"}
FinishOps == {"finish_seq", "finish_child"}

\* The case of the node an add_* operation appends.
add_kind(op) ==
    CASE op = "add_bool" -> "PrimBool"
      [] op = "add_u8" -> "PrimU8"
      [] op = "add_u16" -> "PrimU16"
      [] op = "add_u32" -> "PrimU32"
      [] op = "add_u64" -> "PrimU64"
      [] op = "add_s8" -> "PrimS8"
      [] op = "add_s16" -> "PrimS16"
      [] op = "add_s32" -> "PrimS32"
      [] op = "add_s64" -> "PrimS64"
      [] op = "add_f32" -> "PrimFloat32"
      [] op = "add_f64" -> "PrimFloat64"
      [] op = "add_char" -> "PrimChar"
      [] op = "add_string" -> "PrimString"
      [] op = "add_list" -> "ListValue"
      [] op = "add_tuple" -> "TupleValue"
      [] op = "add_record" -> "RecordValue"
      [] op \in {"add_variant", "add_variant_unit"} -> "VariantValue"
      [] op = "add_enum_value" -> "EnumValue"
      [] op = "add_flags" -> "FlagsValue"
      [] op \in {"add_option", "add_option_some", "add_option_none"} -> "OptionValue"
      [] op \in {"add_result_ok", "add_result_err", "add_result_ok_unit",
                 "add_result_err_unit"} -> "ResultValue"

\* The payload of the appended node: the Ok/Err tag for a result, the
\* argument as given otherwise.
add_val(call) ==
    CASE call.op \in {"add_result_ok", "add_result_ok_unit"} -> "Ok"
      [] call.op \in {"add_result_err", "add_result_err_unit"} -> "Err"
      [] OTHER -> call.val

\* The child indices of the appended node: add_variant stores the index it
\* is given, the other single-child reservations store the placeholder, and
\* every other node starts without children.
add_sub(call) ==
    CASE call.op = "add_variant" -> call.items
      [] call.op \in ChildOps \ {"add_variant"} -> <<Placeholder>>
      [] OTHER -> <<>>

add_status(op) ==
    CASE op \in SeqOps \cup ChildOps -> "reserved"
      [] op = "add_option" -> "optional"
      [] OTHER -> "complete"

\* add_nodes putting the new node in front.
add_nodes_Front(ns, call) ==
    <<Node(add_kind(call.op), add_val(call), add_sub(call))>> \o ns

\* add_*: appends one node and returns its position.
add_nodes(ns, call) == Append(ns, Node(add_kind(call.op), add_val(call), add_sub(call)))
add_index(ns) == Len(ns)

\* finish_legal checking the position only.
finish_legal_AnyNode(st, at) == at \in 0..(Len(st) - 1)

\* finish_child / finish_seq are legal on a node that was reserved and not
\* yet finished.
finish_legal(st, at) ==
    /\ at \in 0..(Len(st) - 1)
    /\ At(st, at) \in {"reserved", "optional"}

\* finish_child / finish_seq: installs the children in the node at `at`.
finish_nodes(ns, call) == [ns EXCEPT ![call.at + 1].sub = call.items]
finish_status(st, call) == [st EXCEPT ![call.at + 1] = "finished"]

\* build() is legal once no reservation is left unfinished.
build_legal(st) == \A i \in 0..(Len(st) - 1) : At(st, i) # "reserved"

\* build(): hands out the node sequence.
build(ns) == ns

\* ------------------------------------------------------------------ encoder
ScalarKinds ==
    {"Bool", "U8", "U16", "U32", "U64", "S8", "S16", "S32", "S64", "I8", "I16",
     "I32", "I64", "F32", "F64", "Char", "String"}

\* build_wit_value of the richer crate, scalar arms: the builder operation
\* each scalar case calls with its payload.
RichScalarOp(kind) ==
    CASE kind = "Bool" -> "add_bool"
      [] kind = "U8" -> "add_u8"
      [] kind = "U16" -> "add_u16"
      [] kind = "U32" -> "add_u32"
      [] kind = "U64" -> "add_u64"
      [] kind = "S8" -> "add_s8"
      [] kind = "S16" -> "add_s16"
      [] kind = "S32" -> "add_s32"
      [] kind = "S64" -> "add_s64"
      [] kind = "F32" -> "add_f32"
      [] kind = "F64" -> "add_f64"
      [] kind = "Char" -> "add_char"
      [] kind = "String" -> "add_string"

\* RichSeqOp with the Tuple arm calling add_list, as its neighbour does.
RichSeqOp_TupleAsList(kind) ==
    CASE kind = "List" -> "add_list"
      [] kind = "Tuple" -> "add_list"
      [] kind = "Record" -> "add_record"

\* List, Tuple and Record arms: the operation that reserves the container.
RichSeqOp(kind) ==
    CASE kind = "List" -> "add_list"
      [] kind = "Tuple" -> "add_tuple"
      [] kind = "Record" -> "add_record"

\* Arms with a payload present: the operation that reserves the node.
\* add_variant takes the case index and -1 for the index not yet known.
RichChildAdd(v) ==
    CASE v.kind = "Variant" -> AddCall("add_variant", v.val, <<-1>>)
      [] v.kind = "Option" -> AddCall("add_option_some", Unit, <<>>)
      [] v.kind = "Result" /\ v.val = "Ok" -> AddCall("add_result_ok", Unit, <<>>)
      [] v.kind = "Result" /\ v.val = "Err" -> AddCall("add_result_err", Unit, <<>>)

\* RichUnitAdd with the Err(None) arm calling add_result_ok_unit.
RichUnitAdd_ErrAsOk(v) ==
    CASE v.kind = "Variant" -> AddCall("add_variant_unit", v.val, <<>>)
      [] v.kind = "Enum" -> AddCall("add_enum_value", v.val, <<>>)
      [] v.kind = "Flags" -> AddCall("add_flags", v.val, <<>>)
      [] v.kind = "Option" -> AddCall("add_option_none", Unit, <<>>)
      [] v.kind = "Result" -> AddCall("add_result_ok_unit", Unit, <<>>)

\* Arms without children: Enum, Flags, and the unit Variant, Option and
\* Result arms.
RichUnitAdd(v) ==
    CASE v.kind = "Variant" -> AddCall("add_variant_unit", v.val, <<>>)
      [] v.kind = "Enum" -> AddCall("add_enum_value", v.val, <<>>)
      [] v.kind = "Flags" -> AddCall("add_flags", v.val, <<>>)
      [] v.kind = "Option" -> AddCall("add_option_none", Unit, <<>>)
      [] v.kind = "Result" /\ v.val = "Ok" -> AddCall("add_result_ok_unit", Unit, <<>>)
      [] v.kind = "Result" /\ v.val = "Err" -> AddCall("add_result_err_unit", Unit, <<>>)

\* build_wit_value of the richer crate: the add_* call it opens with.
RichAdd(v) ==
    IF v.kind \in ScalarKinds THEN AddCall(RichScalarOp(v.kind), v.val, <<>>)
    ELSE IF v.kind \in SeqKinds THEN AddCall(RichSeqOp(v.kind), Unit, <<>>)
    ELSE IF v.sub # <<>> THEN RichChildAdd(v)
    ELSE RichUnitAdd(v)

\* build_wit_value of the simpler crate, scalar arms.
SimpleScalarOp(kind) ==
    CASE kind = "Bool" -> "add_bool"
      [] kind = "U8" -> "add_u8"
      [] kind = "U16" -> "add_u16"
      [] kind = "U32" -> "add_u32"
      [] kind = "U64" -> "add_u64"
      [] kind = "I8" -> "add_s8"
      [] kind = "I16" -> "add_s16"
      [] kind = "I32" -> "add_s32"
      [] kind = "I64" -> "add_s64"
      [] kind = "F32" -> "add_f32"
      [] kind = "F64" -> "add_f64"
      [] kind = "Char" -> "add_char"
      [] kind = "String" -> "add_string"

\* SimpleSeqOp with a record reserved as a tuple.
SimpleSeqOp_RecordAsTuple(kind) ==
    CASE kind = "List" -> "add_list"
      [] kind = "Tuple" -> "add_tuple"
      [] kind = "Record" -> "add_tuple"

SimpleSeqOp(kind) ==
    CASE kind = "List" -> "add_list"
      [] kind = "Tuple" -> "add_tuple"
      [] kind = "Record" -> "add_record"

\* Variant, Enum, Flags, Option and Result arms of the simpler crate: one
\* operation per case, whether or not an Option carries a payload.
SimpleOtherAdd(v) ==
    CASE v.kind = "Variant" -> AddCall("add_variant", v.val, <<-1>>)
      [] v.kind = "Enum" -> AddCall("add_enum_value", v.val, <<>>)
      [] v.kind = "Flags" -> AddCall("add_flags", v.val, <<>>)
      [] v.kind = "Option" -> AddCall("add_option", Unit, <<>>)
      [] v.kind = "Result" /\ v.val = "Ok" -> AddCall("add_result_ok", Unit, <<>>)
      [] v.kind = "Result" /\ v.val = "Err" -> AddCall("add_result_err", Unit, <<>>)

\* build_wit_value of the simpler crate: the add_* call it opens with.
SimpleAdd(v) ==
    IF v.kind \in ScalarKinds THEN AddCall(SimpleScalarOp(v.kind), v.val, <<>>)
    ELSE IF v.kind \in SeqKinds THEN AddCall(SimpleSeqOp(v.kind), Unit, <<>>)
    ELSE SimpleOtherAdd(v)

\* Whether build_wit_value, after its add_* call, goes on to build children
\* and to finish the node (TRUE), or returns the index at once (FALSE).  In
\* both crates: the sequences always, the single-child cases when a payload
\* is present.
HasBody(v) == v.kind \in SeqKinds \/ (v.kind \in ChildKinds /\ v.sub # <<>>)

\* RichFinish with the arguments of finish_child in the other order.
RichFinish_Swapped(v, items, idx) ==
    IF v.kind \in SeqKinds
    THEN FinishCall("finish_seq", items, idx)
    ELSE FinishCall("finish_child", <<idx>>, items[1])

\* RichFinish with finish_child given the container's index for the child.
RichFinish_SelfChild(v, items, idx) ==
    IF v.kind \in SeqKinds
    THEN FinishCall("finish_seq", items, idx)
    ELSE FinishCall("finish_child", <<idx>>, idx)

\* The finish call that closes a container of the richer crate: finish_seq
\* with the collected items for List/Tuple/Record, finish_child with the
\* inner index for Variant/Option/Result.
RichFinish(v, items, idx) ==
    IF v.kind \in SeqKinds
    THEN FinishCall("finish_seq", items, idx)
    ELSE FinishCall("finish_child", <<items[1]>>, idx)

\* The finish call that closes a container of the simpler crate: always
\* finish_seq, with vec![inner_idx] for Variant/Option/Result.
SimpleFinish(v, items, idx) ==
    IF v.kind \in SeqKinds
    THEN FinishCall("finish_seq", items, idx)
    ELSE FinishCall("finish_seq", <<items[1]>>, idx)

OpenCall(c, v) == IF c = Rich THEN RichAdd(v) ELSE SimpleAdd(v)
CloseCall(c, v, items, idx) ==
    IF c = Rich THEN RichFinish(v, items, idx) ELSE SimpleFinish(v, items, idx)

\* build_wit_value as one recursive function of the Value and the nodes the
\* builder holds: the add_* call, then one recursive call per child in
\* order, each on the nodes the previous one left, then the finish call.
\* It returns the nodes and the index of the node of v.  (The runs below
\* take the same calls one at a time.)
RECURSIVE build_wit_value(_, _, _), build_children(_, _, _, _)
build_wit_value(c, v, ns) ==
    LET idx == add_index(ns)
        opened == add_nodes(ns, OpenCall(c, v))
    IN IF ~HasBody(v)
       THEN [nodes |-> opened, idx |-> idx]
       ELSE LET kids == build_children(c, v.sub, opened, <<>>)
            IN [nodes |-> finish_nodes(kids.nodes, CloseCall(c, v, kids.items, idx)),
                idx |-> idx]
build_children(c, vs, ns, items) ==
    IF Len(vs) = 0
    THEN [nodes |-> ns, items |-> items]
    ELSE LET one == build_wit_value(c, Head(vs), ns)
         IN build_children(c, Tail(vs), one.nodes, Append(items, one.idx))

\* From<Value> for WitValue: a new builder, build_wit_value, build().
encode(c, v) == build(build_wit_value(c, v, <<>>).nodes)

\* ------------------------------------------------------------------ decoder
\* The outcome of a conversion: a Value, or the way the call ended instead.
\*   "panic_assert"   the assert! on the node sequence failed
\*   "panic_index"    a slice index was out of bounds
\*   "stack_overflow" the recursion never returned
Ok(v) == [outcome |-> "value", value |-> <<v>>]
Failed(how) == [outcome |-> how, value |-> <<>>]
NoResult == [outcome |-> "none", value |-> <<>>]

\* The Value case build_tree of the richer crate gives a scalar or unit node.
RichKind(nk) ==
    CASE nk = "RecordValue" -> "Record"
      [] nk = "VariantValue" -> "Variant"
      [] nk = "EnumValue" -> "Enum"
      [] nk = "FlagsValue" -> "Flags"
      [] nk = "TupleValue" -> "Tuple"
      [] nk = "ListValue" -> "List"
      [] nk = "OptionValue" -> "Option"
      [] nk = "ResultValue" -> "Result"
      [] nk = "PrimU8" -> "U8"
      [] nk = "PrimU16" -> "U16"
      [] nk = "PrimU32" -> "U32"
      [] nk = "PrimU64" -> "U64"
      [] nk = "PrimS8" -> "S8"
      [] nk = "PrimS16" -> "S16"
      [] nk = "PrimS32" -> "S32"
      [] nk = "PrimS64" -> "S64"
      [] nk = "PrimFloat32" -> "F32"
      [] nk = "PrimFloat64" -> "F64"
      [] nk = "PrimChar" -> "Char"
      [] nk = "PrimBool" -> "Bool"
      [] nk = "PrimString" -> "String"

\* The same for the simpler crate, whose signed integers are I8..I64.
SimpleKind(nk) ==
    CASE nk = "RecordValue" -> "Record"
      [] nk = "VariantValue" -> "Variant"
      [] nk = "EnumValue" -> "Enum"
      [] nk = "FlagsValue" -> "Flags"
      [] nk = "TupleValue" -> "Tuple"
      [] nk = "ListValue" -> "List"
      [] nk = "OptionValue" -> "Option"
      [] nk = "ResultValue" -> "Result"
      [] nk = "PrimU8" -> "U8"
      [] nk = "PrimU16" -> "U16"
      [] nk = "PrimU32" -> "U32"
      [] nk = "PrimU64" -> "U64"
      [] nk = "PrimS8" -> "I8"
      [] nk = "PrimS16" -> "I16"
      [] nk = "PrimS32" -> "I32"
      [] nk = "PrimS64" -> "I64"
      [] nk = "PrimFloat32" -> "F32"
      [] nk = "PrimFloat64" -> "F64"
      [] nk = "PrimChar" -> "Char"
      [] nk = "PrimBool" -> "Bool"
      [] nk = "PrimString" -> "String"

ValueKind(c, nk) == IF c = Rich THEN RichKind(nk) ELSE SimpleKind(nk)

\* The smallest element of a non-empty set of numbers.
Least(S) == CHOOSE x \in S : \A y \in S : x <= y

\* build_tree reading each child index as a position counted from one.
RECURSIVE build_tree_FromOne(_, _, _, _)
build_tree_FromOne(c, index, ns, depth) ==
    IF index < 0 \/ index >= Len(ns) THEN Failed("panic_index")
    ELSE IF depth > Len(ns) THEN Failed("stack_overflow")
    ELSE LET node == At(ns, index)
             kids == [j \in 1..Len(node.sub) |->
                        build_tree_FromOne(c, node.sub[j] - 1, ns, depth + 1)]
             bad == {j \in 1..Len(node.sub) : kids[j].outcome # "value"}
         IN IF bad # {}
            THEN kids[Least(bad)]
            ELSE Ok(Val(ValueKind(c, node.kind), node.val,
                        [j \in 1..Len(node.sub) |-> kids[j].value[1]]))

\* build_tree(&nodes[index as usize], nodes): the slice index panics when the
\* position is out of bounds (a negative NodeIndex cast to usize is far beyond
\* any length); otherwise the node's children are decoded in order, the first
\* one that does not return ends the call the same way, and the results are
\* wrapped in the Value case of the node.  A chain of more nested calls than
\* there are nodes has come back to a node it is already decoding, and
\* recurses until the stack is exhausted.
RECURSIVE build_tree(_, _, _, _)
build_tree(c, index, ns, depth) ==
    IF index < 0 \/ index >= Len(ns) THEN Failed("panic_index")
    ELSE IF depth > Len(ns) THEN Failed("stack_overflow")
    ELSE LET node == At(ns, index)
             kids == [j \in 1..Len(node.sub) |->
                        build_tree(c, node.sub[j], ns, depth + 1)]
             bad == {j \in 1..Len(node.sub) : kids[j].outcome # "value"}
         IN IF bad # {}
            THEN kids[Least(bad)]
            ELSE Ok(Val(ValueKind(c, node.kind), node.val,
                        [j \in 1..Len(node.sub) |-> kids[j].value[1]]))

\* decode taking the last node for the root.
decode_LastRoot(c, w) ==
    IF Len(w) = 0 THEN Failed("panic_assert") ELSE build_tree(c, Len(w) - 1, w, 1)

\* From<WitValue> for Value: asserts that the sequence is not empty and
\* decodes from position 0.
decode(c, w) ==
    IF Len(w) = 0 THEN Failed("panic_assert") ELSE build_tree(c, 0, w, 1)

\* ------------------------------------------------------------------ inputs
\* The leaves that generated trees nest: a scalar, a number that is not
\* equal to itself, and every childless case of the crate.
Leaves(c) ==
    {Val("U32", 7, <<>>), Val("F64", NaN, <<>>), Val("Enum", 2, <<>>),
     Val("Flags", <<TRUE, FALSE>>, <<>>), Val("Option", Unit, <<>>)}
    \cup (IF c = Rich
          THEN {Val("Variant", 1, <<>>), Val("Result", "Ok", <<>>),
                Val("Result", "Err", <<>>)}
          ELSE {})

SeqOf(f) == {Val(k, Unit, f) : k \in SeqKinds}
ChildOf(t) ==
    {Val("Variant", 1, <<t>>), Val("Option", Unit, <<t>>),
     Val("Result", "Ok", <<t>>), Val("Result", "Err", <<t>>)}

\* Trees(c, n): the Values of crate c with exactly n nodes;
\* Forests(c, n): the sequences of Values with n nodes in all.
RECURSIVE Trees(_, _), Forests(_, _)
Trees(c, n) ==
    IF n = 1
    THEN Leaves(c) \cup SeqOf(<<>>)
    ELSE UNION {SeqOf(f) : f \in Forests(c, n - 1) \ {<<>>}}
         \cup UNION {ChildOf(t) : t \in Trees(c, n - 1)}
Forests(c, n) ==
    IF n = 0
    THEN {<<>>}
    ELSE UNION {{<<t>> \o f : t \in Trees(c, k), f \in Forests(c, n - k)} : k \in 1..n}

\* One Value of every scalar case, with payloads at the ends of the ranges.
Scalars(c) ==
    {Val("Bool", TRUE, <<>>), Val("Bool", FALSE, <<>>), Val("U8", 255, <<>>),
     Val("U16", 65535, <<>>), Val("U32", 0, <<>>), Val("U64", 2147483647, <<>>),
     Val("F32", Float(FALSE, 1), <<>>), Val("F32", NaN, <<>>),
     Val("F64", Float(FALSE, -1), <<>>), Val("Char", 955, <<>>),
     Val("String", "", <<>>), Val("String", "hi", <<>>)}
    \cup (IF c = Rich
          THEN {Val("S8", -128, <<>>), Val("S16", -32768, <<>>),
                Val("S32", -7, <<>>), Val("S64", -2147483647, <<>>)}
          ELSE {Val("I8", -128, <<>>), Val("I16", -32768, <<>>),
                Val("I32", -7, <<>>), Val("I64", -2147483647, <<>>)})

\* Record([U32(7), String("hi"), Option(Some(Bool(true)))])
RecordExample ==
    Val("Record", Unit,
        <<Val("U32", 7, <<>>), Val("String", "hi", <<>>),
          Val("Option", Unit, <<Val("Bool", TRUE, <<>>)>>)>>)

\* Variant(3, Result(Err(List([Tuple([]), Option(Some(Char))]))))
DeepExample ==
    Val("Variant", 3,
        <<Val("Result", "Err",
              <<Val("List", Unit,
                    <<Val("Tuple", Unit, <<>>),
                      Val("Option", Unit, <<Val("Char", 955, <<>>)>>)>>)>>)>>)

\* Tuple([Option(Some(Flags)), U32]): a first child with a subtree of its
\* own, followed by a sibling.
SiblingExample ==
    Val("Tuple", Unit,
        <<Val("Option", Unit, <<Val("Flags", <<TRUE, FALSE>>, <<>>)>>),
          Val("U32", 7, <<>>)>>)

Examples == {RecordExample, DeepExample, SiblingExample}

Inputs(c) == UNION {Trees(c, n) : n \in 1..MaxNodes} \cup Scalars(c) \cup Examples

\* Node sequences as a peer may send them: well-formed or not.  Indices
\* range over -1..MaxRawLen, so that some are negative and some too large.
RawIndex == -1..MaxRawLen
RawNodes ==
    {Node("PrimU32", 7, <<>>)}
    \cup {Node("OptionValue", Unit, <<i>>) : i \in RawIndex}
    \cup {Node("TupleValue", Unit, <<p[1], p[2]>>) :
            p \in {q \in RawIndex \X RawIndex : q[1] < q[2]}}
RawWits == UNION {[1..n -> RawNodes] : n \in 0..MaxRawLen}

\* ------------------------------------------------------------------ state
\* crate   which crate's conversion runs
\* phase   "encoding"  build_wit_value is running on input
\*         "client"    a caller drives the builder directly
\*         "received"  wit came from a peer
\*         "built"     build() returned wit
\*         "faulted"   the builder rejected a call
\*         "decoded"   From<WitValue> ended with result
\* input   <<v>>: the Value being encoded (<<>> when none is)
\* nodes, status   the builder
\* stack   the build_wit_value activations, innermost last
\* ret     <<i>>: the index the outermost build_wit_value returned
\* calls   the builder calls made so far, in order
\* wit     the node sequence of the WitValue
\* result  the outcome of decoding wit

\* In a run of add_stub_dependency (phase "stub"):
\* args     the flags of the call
\* step     "plan", "verify", "perform", "cargo": what the call does next;
\*          "ok", "err": what it returned ("off" in the other runs)
\* actions  the planned WitActions, in order
\* cursor   the place in actions of the loop that is running
\* proceed  the flag the verification loop clears
\* events   the verify_action and perform calls made, with their outcomes

\* AddStubDependencyArgs: the two flags (the paths are left out).
AddStubDependencyArgs == [overwrite : BOOLEAN, update_cargo_toml : BOOLEAN]
NoArgs == [overwrite |-> FALSE, update_cargo_toml |-> FALSE]

\* An activation of build_wit_value: its value, whether its add_* call was
\* made and the index that returned, and the child indices collected so far.
Frame(v) == [v |-> v, added |-> FALSE, idx |-> -1, items |-> <<>>]

Init ==
    /\ nodes = <<>>
    /\ status = <<>>
    /\ ret = <<>>
    /\ calls = <<>>
    /\ result = NoResult
    /\ actions = <<>>
    /\ cursor = 0
    /\ proceed = TRUE
    /\ events = <<>>
    /\ \/ /\ crate \in Crates
          /\ args = NoArgs
          /\ step = "off"
          /\ \/ /\ phase = "encoding"
                /\ \E v \in Inputs(crate) : input = <<v>> /\ stack = <<Frame(v)>>
                /\ wit = <<>>
             \/ /\ phase = "client"
                /\ input = <<>>
                /\ stack = <<>>
                /\ wit = <<>>
             \/ /\ phase = "received"
                /\ input = <<>>
                /\ stack = <<>>
                /\ wit \in RawWits
       \/ /\ crate = Stubgen
          /\ phase = "stub"
          /\ input = <<>>
          /\ stack = <<>>
          /\ wit = <<>>
          /\ args \in AddStubDependencyArgs
          /\ step = "plan"

Top == stack[Len(stack)]

\* Returned with the index put in front of the items.
Returned_Front(idx) ==
    IF Len(stack) = 1
    THEN <<>>
    ELSE [SubSeq(stack, 1, Len(stack) - 1) EXCEPT
            ![Len(stack) - 1].items = <<idx>> \o @]

\* The stack after the innermost activation returns idx: the caller pushes
\* the index onto its items.
Returned(idx) ==
    IF Len(stack) = 1
    THEN <<>>
    ELSE [SubSeq(stack, 1, Len(stack) - 1) EXCEPT
            ![Len(stack) - 1].items = Append(@, idx)]

\* A scalar, a unit case or an absent option: one add_* call, whose index
\* is returned at once.
AddLeaf ==
    /\ phase = "encoding"
    /\ stack # <<>>
    /\ ~Top.added
    /\ ~HasBody(Top.v)
    /\ LET call == OpenCall(crate, Top.v)
           idx == add_index(nodes)
       IN /\ nodes' = add_nodes(nodes, call)
          /\ status' = Append(status, add_status(call.op))
          /\ calls' = Append(calls, [call EXCEPT !.at = idx])
          /\ stack' = Returned(idx)
          /\ ret' = IF Len(stack) = 1 THEN <<idx>> ELSE ret
    /\ UNCHANGED <<crate, phase, input, wit, result>>
    /\ UNCHANGED stubVars

\* A container with children to build: the add_* call that reserves it.
Reserve ==
    /\ phase = "encoding"
    /\ stack # <<>>
    /\ ~Top.added
    /\ HasBody(Top.v)
    /\ LET call == OpenCall(crate, Top.v)
           idx == add_index(nodes)
       IN /\ nodes' = add_nodes(nodes, call)
          /\ status' = Append(status, add_status(call.op))
          /\ calls' = Append(calls, [call EXCEPT !.at = idx])
          /\ stack' = [stack EXCEPT ![Len(stack)].added = TRUE, ![Len(stack)].idx = idx]
    /\ UNCHANGED <<crate, phase, input, ret, wit, result>>
    /\ UNCHANGED stubVars

\* Recurse taking the children from the last to the first.
Recurse_Reversed ==
    /\ phase = "encoding"
    /\ stack # <<>>
    /\ Top.added
    /\ Len(Top.items) < Len(Top.v.sub)
    /\ stack' = Append(stack, Frame(Top.v.sub[Len(Top.v.sub) - Len(Top.items)]))
    /\ UNCHANGED <<crate, phase, input, nodes, status, ret, calls, wit, result>>
    /\ UNCHANGED stubVars

\* The recursive call on the next child.
Recurse ==
    /\ phase = "encoding"
    /\ stack # <<>>
    /\ Top.added
    /\ Len(Top.items) < Len(Top.v.sub)
    /\ stack' = Append(stack, Frame(Top.v.sub[Len(Top.items) + 1]))
    /\ UNCHANGED <<crate, phase, input, nodes, status, ret, calls, wit, result>>
    /\ UNCHANGED stubVars

\* All children built: the finish call, and the container's index returned.
Finish ==
    /\ phase = "encoding"
    /\ stack # <<>>
    /\ Top.added
    /\ Len(Top.items) = Len(Top.v.sub)
    /\ LET call == CloseCall(crate, Top.v, Top.items, Top.idx)
       IN /\ calls' = Append(calls, call)
          /\ IF finish_legal(status, call.at)
             THEN /\ nodes' = finish_nodes(nodes, call)
                  /\ status' = finish_status(status, call)
                  /\ stack' = Returned(Top.idx)
                  /\ ret' = IF Len(stack) = 1 THEN <<Top.idx>> ELSE ret
                  /\ phase' = phase
             ELSE /\ phase' = "faulted"
                  /\ UNCHANGED <<nodes, status, stack, ret>>
    /\ UNCHANGED <<crate, input, wit, result>>
    /\ UNCHANGED stubVars

\* From<Value> for WitValue, after build_wit_value returned: builder.build().
Build ==
    /\ phase = "encoding"
    /\ stack = <<>>
    /\ calls' = Append(calls, FinishCall("build", <<>>, -1))
    /\ IF build_legal(status)
       THEN phase' = "built" /\ wit' = build(nodes)
       ELSE phase' = "faulted" /\ wit' = wit
    /\ UNCHANGED <<crate, input, nodes, status, stack, ret, result>>
    /\ UNCHANGED stubVars

\* From<WitValue> for Value on the WitValue just built or received.
Decode ==
    /\ phase \in {"built", "received"}
    /\ result' = decode(crate, wit)
    /\ phase' = "decoded"
    /\ UNCHANGED <<crate, input, nodes, status, stack, ret, calls, wit>>
    /\ UNCHANGED stubVars

\* A direct caller of the builder (the builder is the construction surface
\* of WitValue, not of the encoder alone): any add_*, any finish_* on any
\* position, build() at any time, up to MaxCalls calls.
ClientAdds(c) ==
    {"add_u32", "add_list", "add_variant",
     IF c = Rich THEN "add_option_none" ELSE "add_option"}

ClientCall(op) ==
    CASE op = "add_u32" -> AddCall(op, 7, <<>>)
      [] op = "add_variant" -> AddCall(op, 1, <<Placeholder>>)
      [] OTHER -> AddCall(op, Unit, <<>>)

ClientFinishes(ns) ==
    {FinishCall("finish_seq", items, at) :
        items \in {<<>>, <<Len(ns) - 1>>}, at \in 0..Len(ns)}
    \cup {FinishCall("finish_child", <<Len(ns) - 1>>, at) : at \in 0..Len(ns)}

ClientAdd ==
    /\ phase = "client"
    /\ Len(calls) < MaxCalls
    /\ \E op \in ClientAdds(crate) :
          LET call == ClientCall(op)
          IN /\ nodes' = add_nodes(nodes, call)
             /\ status' = Append(status, add_status(call.op))
             /\ calls' = Append(calls, [call EXCEPT !.at = add_index(nodes)])
    /\ UNCHANGED <<crate, phase, input, stack, ret, wit, result>>
    /\ UNCHANGED stubVars

ClientFinish ==
    /\ phase = "client"
    /\ Len(calls) < MaxCalls
    /\ \E call \in ClientFinishes(nodes) :
          /\ calls' = Append(calls, call)
          /\ IF finish_legal(status, call.at)
             THEN /\ nodes' = finish_nodes(nodes, call)
                  /\ status' = finish_status(status, call)
                  /\ phase' = phase
             ELSE /\ phase' = "faulted"
                  /\ UNCHANGED <<nodes, status>>
    /\ UNCHANGED <<crate, input, stack, ret, wit, result>>
    /\ UNCHANGED stubVars

ClientBuild ==
    /\ phase = "client"
    /\ Len(calls) < MaxCalls
    /\ calls' = Append(calls, FinishCall("build", <<>>, -1))
    /\ IF build_legal(status)
       THEN phase' = "built" /\ wit' = build(nodes)
       ELSE phase' = "faulted" /\ wit' = wit
    /\ UNCHANGED <<crate, input, nodes, status, stack, ret, result>>
    /\ UNCHANGED stubVars

\* ---------------------------------------------------- add_stub_dependency
convVars == <<crate, phase, input, nodes, status, stack, ret, calls, wit, result>>

\* WitAction: CopyDepDir of the k-th dependency directory, CopyDepWit of
\* _stub.wit (source 0).
CopyDepDir(k) == [kind |-> "CopyDepDir", source |-> k]
CopyDepWit == [kind |-> "CopyDepWit", source |-> 0]

\* The plan: one CopyDepDir per dependency directory, in the order
\* get_dep_dirs gave them, then the CopyDepWit.
Plan(deps) == [k \in 1..deps |-> CopyDepDir(k)] \o <<CopyDepWit>>

\* A call of verify_action or of perform on the action at place k.
Event(what, k, outcome) == [what |-> what, action |-> k, outcome |-> outcome]

\* Proceed taking the verdict of the last verification alone.
Proceed_Last(p, verdict) == verdict = "true"

\* The flag after one verification: cleared by a false verdict, never set
\* again.
Proceed(p, verdict) == p /\ verdict = "true"

\* get_dep_dirs and get_package_name, either of which may fail, and the
\* list of actions.
StubPlan ==
    /\ step = "plan"
    /\ \/ \E deps \in 0..MaxDeps :
             /\ actions' = Plan(deps)
             /\ cursor' = 1
             /\ step' = "verify"
       \/ /\ step' = "err"
          /\ UNCHANGED <<actions, cursor>>
    /\ UNCHANGED <<args, proceed, events>>
    /\ UNCHANGED convVars

\* One turn of the verification loop: verify_action returns Ok(true),
\* Ok(false) or an error, which ends the call.  After the last turn the
\* call goes on to perform the actions if proceed is still set, and to the
\* Cargo.toml otherwise.
StubVerify ==
    /\ step = "verify"
    /\ \E verdict \in {"true", "false", "err"} :
          /\ events' = Append(events, Event("verify", cursor, verdict))
          /\ IF verdict = "err"
             THEN step' = "err" /\ UNCHANGED <<cursor, proceed>>
             ELSE /\ proceed' = Proceed(proceed, verdict)
                  /\ IF cursor < Len(actions)
                     THEN cursor' = cursor + 1 /\ step' = "verify"
                     ELSE /\ cursor' = 1
                          /\ step' = IF proceed' THEN "perform" ELSE "cargo"
    /\ UNCHANGED <<args, actions>>
    /\ UNCHANGED convVars

\* One turn of the loop that performs the actions: perform returns Ok or
\* an error, which ends the call.
StubPerform ==
    /\ step = "perform"
    /\ \E outcome \in {"ok", "err"} :
          /\ events' = Append(events, Event("perform", cursor, outcome))
          /\ IF outcome = "err"
             THEN step' = "err" /\ cursor' = cursor
             ELSE IF cursor < Len(actions)
                  THEN cursor' = cursor + 1 /\ step' = "perform"
                  ELSE cursor' = cursor /\ step' = "cargo"
    /\ UNCHANGED <<args, actions, proceed>>
    /\ UNCHANGED convVars

\* The Cargo.toml of the destination: with a component Cargo.toml next to
\* the WIT root, a warning or the update (which may fail); without one, an
\* error when the update was asked for.
StubCargo ==
    /\ step = "cargo"
    /\ \E toml \in BOOLEAN, written \in BOOLEAN :
          step' = IF toml
                  THEN IF ~args.update_cargo_toml \/ written THEN "ok" ELSE "err"
                  ELSE IF args.update_cargo_toml THEN "err" ELSE "ok"
    /\ UNCHANGED <<args, actions, cursor, proceed, events>>
    /\ UNCHANGED convVars

Next ==
    \/ AddLeaf \/ Reserve \/ Recurse \/ Finish \/ Build \/ Decode
    \/ ClientAdd \/ ClientFinish \/ ClientBuild
    \/ StubPlan \/ StubVerify \/ StubPerform \/ StubCargo

Spec == Init /\ [][Next]_vars

\* ------------------------------------------------------------------ claims
\* The Value being encoded, in a run that encodes one.
In == input[1]
Encoding == input # <<>>
LastCall == calls[Len(calls)]
\* build() was called, and returned the WitValue.
BuiltByBuilder == calls # <<>> /\ LastCall.op = "build" /\ phase \in {"built", "decoded"}

\* The WitNode case that mirrors a Value case.
Mirror(kind) ==
    CASE kind = "Bool" -> "PrimBool"
      [] kind = "U8" -> "PrimU8"
      [] kind = "U16" -> "PrimU16"
      [] kind = "U32" -> "PrimU32"
      [] kind = "U64" -> "PrimU64"
      [] kind \in {"S8", "I8"} -> "PrimS8"
      [] kind \in {"S16", "I16"} -> "PrimS16"
      [] kind \in {"S32", "I32"} -> "PrimS32"
      [] kind \in {"S64", "I64"} -> "PrimS64"
      [] kind = "F32" -> "PrimFloat32"
      [] kind = "F64" -> "PrimFloat64"
      [] kind = "Char" -> "PrimChar"
      [] kind = "String" -> "PrimString"
      [] kind = "List" -> "ListValue"
      [] kind = "Tuple" -> "TupleValue"
      [] kind = "Record" -> "RecordValue"
      [] kind = "Variant" -> "VariantValue"
      [] kind = "Enum" -> "EnumValue"
      [] kind = "Flags" -> "FlagsValue"
      [] kind = "Option" -> "OptionValue"
      [] kind = "Result" -> "ResultValue"

\* C1: round trip.  Whenever a Value that is equal to itself has been encoded
\* and the WitValue decoded, the decoder returned a Value and that Value is
\* equal to the input: same cases, payloads, order, case indices, flags and
\* the same present/absent children.
C1_RoundTrip ==
    (phase = "decoded" /\ Encoding /\ ValueEq(In, In))
        => (result.outcome = "value" /\ ValueEq(result.value[1], In))

\* A nested Value with a variant, an Err arm, a list, an empty tuple and a
\* present option went through encode and decode in the richer crate.
C1_Witness ==
    /\ phase = "decoded"
    /\ crate = Rich
    /\ input = <<DeepExample>>
    /\ ValueEq(In, In)
    /\ Len(wit) = 6

\* Every child index of node i is a position of w and lies after i.
ForwardRefs(w) ==
    \A i \in 0..(Len(w) - 1) :
        \A j \in 1..Len(At(w, i).sub) :
            At(w, i).sub[j] > i /\ At(w, i).sub[j] < Len(w)

\* C2: forward references.  In every WitValue produced by encode, each child
\* index of the node at position i is greater than i and less than the
\* length of the sequence; so no -1 placeholder is left.
C2_ForwardRefs == (Encoding /\ phase \in {"built", "decoded"}) => ForwardRefs(wit)

\* The simpler crate built a WitValue whose variant node, reserved with -1,
\* now points to the next position.
C2_Witness ==
    /\ phase = "built"
    /\ crate = Simple
    /\ input = <<DeepExample>>
    /\ At(wit, 0).kind = "VariantValue"
    /\ At(wit, 0).sub = <<1>>

\* C3: root.  encode never fails; the sequence it returns is not empty, its
\* node at position 0 is the node of the input's own case with the input's
\* payload, and 0 is the index the outermost build_wit_value returned.
C3_Root ==
    Encoding =>
        /\ phase # "faulted"
        /\ phase \in {"built", "decoded"} =>
              /\ Len(wit) > 0
              /\ At(wit, 0).kind = Mirror(In.kind)
              /\ At(wit, 0).val = In.val
              /\ ret = <<0>>

\* A tuple with two elements was encoded: three nodes, the tuple's first.
C3_Witness ==
    /\ phase = "built"
    /\ Encoding
    /\ In.kind = "Tuple"
    /\ Len(In.sub) = 2
    /\ Len(wit) = 3
    /\ At(wit, 0).kind = "TupleValue"

\* C4: an empty node sequence is rejected with an error returned to the
\* caller, never with a panic.
C4_EmptyRejected ==
    (phase = "decoded" /\ Len(wit) = 0) => result.outcome = "error"

\* The positions decode can come to from position 0.
RECURSIVE Reach(_, _)
Reach(w, S) ==
    LET T == S \cup {k \in 0..(Len(w) - 1) :
                        \E i \in S : \E j \in 1..Len(At(w, i).sub) : At(w, i).sub[j] = k}
    IN IF T = S THEN S ELSE Reach(w, T)

\* Some node decode can come to carries an index that is no position of w.
CorruptIndex(w) ==
    /\ Len(w) > 0
    /\ \E i \in Reach(w, {0}) :
          \E j \in 1..Len(At(w, i).sub) : At(w, i).sub[j] \notin 0..(Len(w) - 1)

\* C5: a node sequence with an out-of-range child index on a reachable node
\* is rejected with a "corrupt encoding" error returned to the caller: no
\* panic, no abort, no Value.
C5_CorruptRejected ==
    (phase = "decoded" /\ CorruptIndex(wit)) => result.outcome = "error"

\* The Value nodes of v, parent first, children in order.
RECURSIVE PreOrder(_), PreOrderAll(_)
PreOrder(v) == <<v>> \o PreOrderAll(v.sub)
PreOrderAll(vs) ==
    IF Len(vs) = 0 THEN <<>> ELSE PreOrder(Head(vs)) \o PreOrderAll(Tail(vs))

AddOps == ScalarOps \cup SeqOps \cup ChildOps \cup UnitOps \cup {"add_option"}

\* Among the calls cs: position `at` was appended by a reserving add;
\* a finish call targeted position `at`.
ReservedAt(cs, at) ==
    \E p \in 1..Len(cs) : cs[p].op \in ReservingOps /\ cs[p].at = at
FinishedAt(cs, at) ==
    \E p \in 1..Len(cs) : cs[p].op \in FinishOps /\ cs[p].at = at
Before(q) == SubSeq(calls, 1, q - 1)

\* The finish call at place q of the run targets a node that a reserving add
\* appended earlier and that no earlier finish targeted, and it installs as
\* many indices as the Value at that node has children, each of a node
\* appended earlier.
FinishInPlace(q) ==
    /\ ReservedAt(Before(q), calls[q].at)
    /\ ~FinishedAt(Before(q), calls[q].at)
    /\ Len(calls[q].items) = Len(PreOrder(In)[calls[q].at + 1].sub)
    /\ \A j \in 1..Len(calls[q].items) :
          \E r \in 1..(q - 1) : calls[r].op \in AddOps /\ calls[r].at = calls[q].items[j]

\* In an encode run: every finish call is in place, and when build() is
\* called every node appended by one of the operations `must` has been
\* targeted by a finish call.
FinishDiscipline(must) ==
    Encoding =>
        /\ \A q \in 1..Len(calls) : calls[q].op \in FinishOps => FinishInPlace(q)
        /\ (calls # <<>> /\ LastCall.op = "build") =>
              \A p \in 1..Len(calls) :
                  calls[p].op \in must => FinishedAt(calls, calls[p].at)

\* C6 as stated: every node appended by a reserving add, add_option among
\* them, is finished exactly once, after its children were appended and
\* before build(); no finish call targets a scalar or unit node.
C6_AllFinishedOnce == FinishDiscipline(ReservingOps)

\* C6, amended: the same for every reserving add but add_option of the
\* simpler crate, whose node is finished exactly once when the Option has a
\* payload and never when it is absent.
C6_FinishedOnce ==
    /\ FinishDiscipline(ReservingOps \ {"add_option"})
    /\ (Encoding /\ calls # <<>> /\ LastCall.op = "build") =>
          \A p \in 1..Len(calls) :
              calls[p].op = "add_option" =>
                  (FinishedAt(calls, calls[p].at)
                      <=> Len(PreOrder(In)[calls[p].at + 1].sub) > 0)

\* The simpler crate encoded Option(Some(Option(None))): the outer option
\* was finished, the inner one was not, and build() returned.
C6_Witness ==
    /\ phase = "built"
    /\ crate = Simple
    /\ input = <<Val("Option", Unit, <<Val("Option", Unit, <<>>)>>)>>
    /\ Len(calls) = 4
    /\ FinishedAt(calls, 0)
    /\ ~FinishedAt(calls, 1)

\* C7: unit arms.  Option(None), a Variant without payload, Result(Ok(None))
\* and Result(Err(None)) are encoded as exactly one node of the same case
\* that carries no child index, and decoding returns the same unit value,
\* never one with a payload.
C7_UnitArms ==
    (Encoding /\ In.kind \in ChildKinds /\ Len(In.sub) = 0) =>
        /\ phase \in {"built", "decoded"} =>
              /\ Len(wit) = 1
              /\ At(wit, 0).kind = Mirror(In.kind)
              /\ At(wit, 0).val = In.val
              /\ At(wit, 0).sub = <<>>
        /\ phase = "decoded" =>
              /\ result.outcome = "value"
              /\ result.value[1].kind = In.kind
              /\ result.value[1].val = In.val
              /\ Len(result.value[1].sub) = 0

\* Result(Err(None)) went through encode and decode in the richer crate.
C7_Witness ==
    /\ phase = "decoded"
    /\ crate = Rich
    /\ input = <<Val("Result", "Err", <<>>)>>
    /\ Len(wit) = 1
    /\ result.outcome = "value"

RecordExampleNodes ==
    <<Node("RecordValue", Unit, <<1, 2, 3>>), Node("PrimU32", 7, <<>>),
      Node("PrimString", "hi", <<>>), Node("OptionValue", Unit, <<4>>),
      Node("PrimBool", TRUE, <<>>)>>

\* C8: Record([U32(7), String("hi"), Option(Some(Bool(true)))]) is encoded
\* as the five nodes record, u32, string, option, bool, the record's child
\* list being [1, 2, 3] and the option's child 4, and decoding that sequence
\* gives the record back.
C8_RecordExample ==
    input = <<RecordExample>> =>
        /\ phase \in {"built", "decoded"} => wit = RecordExampleNodes
        /\ phase = "decoded" => result = Ok(RecordExample)

\* The record went through encode and decode in the richer crate.
C8_Witness ==
    /\ phase = "decoded"
    /\ crate = Rich
    /\ input = <<RecordExample>>
    /\ Len(wit) = 5

\* A step that makes a builder call: an add_* appends one node at the
\* position equal to the previous length, records that position as returned
\* and keeps every earlier node; a finish_* keeps the length and every node
\* but the one at its target.
AppendOrPatch ==
    Len(calls') = Len(calls) + 1 =>
        LET e == calls'[Len(calls')]
        IN /\ e.op \in AddOps =>
                /\ Len(nodes') = Len(nodes) + 1
                /\ e.at = Len(nodes)
                /\ \A i \in 1..Len(nodes) : nodes'[i] = nodes[i]
           /\ e.op \in FinishOps =>
                /\ Len(nodes') = Len(nodes)
                /\ \A i \in 1..Len(nodes) : i # e.at + 1 => nodes'[i] = nodes[i]

\* C9: builder operations are append-only but for the single-slot patch:
\* every step of every run is AppendOrPatch.
C9_AppendOnly == [][AppendOrPatch]_vars

\* A finish_seq has just installed two children in the node at position 0
\* while two later nodes exist.
C9_Witness ==
    /\ phase = "encoding"
    /\ calls # <<>>
    /\ LastCall.op = "finish_seq"
    /\ LastCall.at = 0
    /\ Len(LastCall.items) = 2
    /\ Len(nodes) = 3
    /\ At(nodes, 0).sub = LastCall.items

\* A step that makes a builder call: a finish_* on a node that was never
\* reserved (a scalar or unit node among them) or was finished already
\* faults and returns no WitValue; so does build() while a node appended by
\* one of the operations `must` is unfinished.
FailFast(must) ==
    Len(calls') = Len(calls) + 1 =>
        LET e == calls'[Len(calls')]
        IN /\ (e.op \in FinishOps
                  /\ (~ReservedAt(calls, e.at) \/ FinishedAt(calls, e.at))) =>
                (phase' = "faulted" /\ wit' = wit)
           /\ (e.op = "build"
                  /\ \E p \in 1..Len(calls) :
                        calls[p].op \in must /\ ~FinishedAt(calls, calls[p].at)) =>
                (phase' = "faulted" /\ wit' = wit)

\* No WitValue that build() returned carries the placeholder index.
NoPlaceholder ==
    BuiltByBuilder =>
        \A i \in 0..(Len(wit) - 1) :
            \A j \in 1..Len(At(wit, i).sub) : At(wit, i).sub[j] # Placeholder

\* C10 as stated: a finish on a finished, never reserved, scalar or unit
\* node faults; build() with any reserved container unfinished (a node of
\* add_option among them) faults; no built WitValue holds a placeholder.
C10_FailFastAll == [][FailFast(ReservingOps) /\ NoPlaceholder']_vars

\* C10, amended: the same, where the reserved containers build() insists on
\* are those of every reserving add but add_option of the simpler crate,
\* whose node may stay unfinished (it then reads as an absent option).
C10_FailFast == [][FailFast(ReservingOps \ {"add_option"}) /\ NoPlaceholder']_vars

\* A caller finished the same reserved node twice: the second call faulted.
C10_Witness ==
    /\ phase = "faulted"
    /\ calls # <<>>
    /\ LastCall.op \in FinishOps
    /\ FinishedAt(Before(Len(calls)), LastCall.at)
    /\ wit = <<>>

\* The richer Value that stands for a Value of the simpler crate: I8..I64
\* are S8..S64, every variant and result payload stays present (Some).
EmbedKind(kind) ==
    CASE kind = "I8" -> "S8"
      [] kind = "I16" -> "S16"
      [] kind = "I32" -> "S32"
      [] kind = "I64" -> "S64"
      [] OTHER -> kind
RECURSIVE Embed(_)
Embed(s) == Val(EmbedKind(s.kind), s.val, [j \in 1..Len(s.sub) |-> Embed(s.sub[j])])

\* Two node sequences of the same length whose nodes agree, position by
\* position, in kind, scalar payload and child indices.
SameNodes(a, b) ==
    /\ Len(a) = Len(b)
    /\ \A i \in 1..Len(a) :
          /\ a[i].kind = b[i].kind
          /\ a[i].sub = b[i].sub
          /\ a[i].kind = b[i].kind => a[i].val = b[i].val

\* C11: the simpler crate is refined by the richer one.  When the simpler
\* crate has encoded s, the richer encoder gives for Embed(s) a node
\* sequence of the same length with the same kinds, scalar payloads and
\* child indices; when the simpler decoder has returned a Value for that
\* sequence, the richer decoder returns its embedding for the richer
\* sequence.  In both crates the WitValue built is the one build_wit_value
\* computes as a function.
C11_Refinement ==
    (Encoding /\ phase \in {"built", "decoded"}) =>
        /\ wit = encode(crate, In)
        /\ crate = Simple =>
              /\ SameNodes(wit, encode(Rich, Embed(In)))
              /\ phase = "decoded" =>
                    /\ result.outcome = "value"
                    /\ decode(Rich, encode(Rich, Embed(In))).outcome = "value"
                    /\ decode(Rich, encode(Rich, Embed(In))).value[1]
                          = Embed(result.value[1])

\* The simpler crate encoded and decoded a record that holds a variant with
\* its payload: the richer crate wraps that payload in Some and builds the
\* same three nodes.
C11_Witness ==
    /\ phase = "decoded"
    /\ crate = Simple
    /\ Encoding
    /\ In.kind = "Record"
    /\ Len(In.sub) = 1
    /\ In.sub[1].kind = "Variant"
    /\ Len(In.sub[1].sub) = 1
    /\ Len(encode(Rich, Embed(In))) = 3

\* The nesting depth of v: 1 for a leaf.
RECURSIVE Depth(_), DepthAll(_)
Depth(v) == 1 + DepthAll(v.sub)
DepthAll(vs) ==
    IF Len(vs) = 0 THEN 0
    ELSE LET d == Depth(Head(vs))
             r == DepthAll(Tail(vs))
         IN IF d > r THEN d ELSE r

\* A limit on depth and on length that admits every generated tree.  The
\* conversions read no limit of their own.
Limit == MaxNodes + 1

\* C12: both conversions cap recursion depth and sequence length.  A Value
\* deeper or larger than the limit is never encoded into a WitValue, and
\* decoding a node sequence longer than the limit ends with a
\* "limit_exceeded" error, which is neither a Value nor the error of a
\* malformed encoding.
C12_Capped ==
    /\ (Encoding /\ (Depth(In) > Limit \/ Size(In) > Limit)) =>
          phase \notin {"built", "decoded"}
    /\ (phase = "decoded" /\ Len(wit) > Limit) =>
          result.outcome = "limit_exceeded"

\* Where the j-th child of v starts when v is at position i: right after i
\* for the first, right after the previous child's subtree for the others.
RECURSIVE ChildStart(_, _, _)
ChildStart(v, i, j) ==
    IF j = 1 THEN i + 1 ELSE ChildStart(v, i, j - 1) + Size(v.sub[j - 1])

\* The subtree of v is laid out in w in pre-order from position i on: the
\* node of v at i with the child indices of ChildStart, every child laid
\* out from its own start.
RECURSIVE LaidOut(_, _, _)
LaidOut(v, i, w) ==
    /\ i < Len(w)
    /\ At(w, i).kind = Mirror(v.kind)
    /\ At(w, i).sub = [j \in 1..Len(v.sub) |-> ChildStart(v, i, j)]
    /\ \A j \in 1..Len(v.sub) : LaidOut(v.sub[j], ChildStart(v, i, j), w)

\* The places (node, slot) of w that hold the child index k.
Referrers(w, k) ==
    UNION {{<<i, j>> : j \in {s \in 1..Len(At(w, i).sub) : At(w, i).sub[s] = k}} :
              i \in 0..(Len(w) - 1)}

\* C13: pre-order layout.  In every WitValue produced by encode the length
\* is the number of Value nodes of the input (a Flags value is one node),
\* every subtree lies in the contiguous range that starts at its own node,
\* the first child at the next position and each further child right after
\* the previous child's subtree; position 0 is referenced by no child
\* index and every other position by exactly one.
C13_PreOrderLayout ==
    (Encoding /\ phase \in {"built", "decoded"}) =>
        /\ Len(wit) = Size(In)
        /\ LaidOut(In, 0, wit)
        /\ Referrers(wit, 0) = {}
        /\ \A k \in 1..(Len(wit) - 1) : Cardinality(Referrers(wit, k)) = 1

\* The simpler crate encoded Tuple([Option(Some(Flags)), U32]): the second
\* child starts at 3, after the two nodes of the first.
C13_Witness ==
    /\ phase = "built"
    /\ crate = Simple
    /\ input = <<SiblingExample>>
    /\ Len(wit) = 4
    /\ At(wit, 0).sub = <<1, 3>>
    /\ At(wit, 2).kind = "FlagsValue"

\* The number of nested build_tree calls that decoding position i of w
\* takes, i included (w with forward references only).
RECURSIVE Nesting(_, _), NestingAll(_, _, _)
Nesting(w, i) == 1 + NestingAll(w, At(w, i).sub, 0)
NestingAll(w, sub, most) ==
    IF Len(sub) = 0 THEN most
    ELSE LET d == Nesting(w, Head(sub))
         IN NestingAll(w, Tail(sub), IF d > most THEN d ELSE most)

\* A step that decodes.
Decoding == phase # "decoded" /\ phase' = "decoded"

\* C14: decode terminates.  A decode step leaves the node sequence as it
\* was; on a non-empty sequence whose child indices all point forward and
\* inside it (every encode output among them) the step returns a Value,
\* having nested no more build_tree calls than the sequence has nodes.
C14_DecodeTerminates ==
    [][Decoding =>
          /\ wit' = wit
          /\ (Len(wit) > 0 /\ ForwardRefs(wit)) =>
                /\ result'.outcome = "value"
                /\ Nesting(wit, 0) <= Len(wit)]_vars

\* A received sequence of two nodes, an option pointing forward to a
\* number, was decoded into Option(Some(U32(7))).
C14_Witness ==
    /\ phase = "decoded"
    /\ ~Encoding
    /\ wit = <<Node("OptionValue", Unit, <<1>>), Node("PrimU32", 7, <<>>)>>
    /\ result = Ok(Val("Option", Unit, <<Val("U32", 7, <<>>)>>))

\* The places in actions whose perform returned Ok.
Performed ==
    {events[p].action : p \in {q \in 1..Len(events) :
                                  events[q].what = "perform" /\ events[q].outcome = "ok"}}

\* add_stub_dependency has returned.
Returned_Stub == phase = "stub" /\ step \in {"ok", "err"}

\* Every perform call comes after a verification of every planned action
\* that returned true and after no verification that returned false, and
\* the perform calls take the actions in planned order; a verification that
\* returned false leaves the run without any perform call.
VerifiedFirst ==
    /\ \A p \in 1..Len(events) :
          events[p].what = "perform" =>
              /\ \A k \in 1..Len(actions) :
                    \E q \in 1..(p - 1) : events[q] = Event("verify", k, "true")
              /\ \A q \in 1..(p - 1) :
                    events[q].what = "verify" => events[q].outcome = "true"
              /\ events[p].action
                    = 1 + Cardinality({q \in 1..(p - 1) : events[q].what = "perform"})
    /\ (\E q \in 1..Len(events) : events[q].what = "verify" /\ events[q].outcome = "false")
          => \A p \in 1..Len(events) : events[p].what # "perform"

\* C15 as stated: the copies are all-or-nothing.  Every planned action is
\* verified before any is performed, a false verification leaves none
\* performed, the actions are performed in planned order, and when the
\* call has returned either every planned action was performed or none.
C15_AllOrNothing ==
    /\ VerifiedFirst
    /\ Returned_Stub => (Performed = {} \/ Performed = 1..Len(actions))

\* C15, amended: the same, but the copies are all-or-nothing with respect
\* to verification only: when the call has returned, every planned action
\* was performed, or none, or the last perform call failed and exactly the
\* actions before it were performed.
C15_VerifiedFirst ==
    /\ VerifiedFirst
    /\ Returned_Stub =>
          \/ Performed = {}
          \/ Performed = 1..Len(actions)
          \/ /\ events[Len(events)].what = "perform"
             /\ events[Len(events)].outcome = "err"
             /\ step = "err"
             /\ Performed = 1..(events[Len(events)].action - 1)
    /\ (phase = "stub" /\ step \in {"cargo", "ok"} /\ proceed) =>
          Performed = 1..Len(actions)

\* Two dependency directories and _stub.wit were verified, all three with
\* true; the first directory was copied, the copy of the second failed and
\* the call returned the error.
C15_Witness ==
    /\ phase = "stub"
    /\ step = "err"
    /\ Len(actions) = 3
    /\ events = <<Event("verify", 1, "true"), Event("verify", 2, "true"),
                  Event("verify", 3, "true"), Event("perform", 1, "ok"),
                  Event("perform", 2, "err")>>

====
